---- MODULE Spec2Model ----
(***************************************************************************)
(* A model of recipe_assist.py: the intent classifier, the recipe search   *)
(* parameter assembly, the message router process_message and the          *)
(* Streamlit script main() with its session conversation log.              *)
(***************************************************************************)
EXTENDS Integers, Sequences, FiniteSets, TLC

VARIABLES
    session_state,        \* st.session_state: a mapping that may hold the key "messages"
    mistral_api_key,      \* sidebar text input
    spoonacular_api_key,  \* sidebar text input
    pc,                   \* where the script run stands
    prompt,               \* the prompt being handled
    frame,                \* the local variables of process_message
    calls,                \* the external calls issued while handling the prompt
    outcome,              \* what process_message gave back: a return value or an exception
    page,                 \* what the current script run wrote to the page
    content,              \* classifier check: a model reply
    verdict,              \* classifier check: the value is_recipe_query returned for it
    kwargs,               \* search check: the keyword arguments of search_recipes
    params                \* search check: the query parameters built from them

vars == <<session_state, mistral_api_key, spoonacular_api_key, pc, prompt, frame,
          calls, outcome, page, content, verdict, kwargs, params>>

(***************************************************************************)
(* Python values.  A value carries its type, so that truthiness and        *)
(* serialisation are decided as Python decides them.                       *)
(***************************************************************************)
None == [t |-> "none"]

PyStr(s) == [t |-> "str", v |-> s]

PyInt(n) == [t |-> "int", v |-> n]

PyBool(b) == [t |-> "bool", v |-> b]

PyList(l) == [t |-> "list", v |-> l]

PyDict(d) == [t |-> "dict", v |-> d]

EmptyMap == [k \in {} |-> None]

\* bool(x) of a Python value
Truthy(x) ==
    CASE x.t = "none" -> FALSE
      [] x.t = "str"  -> x.v # ""
      [] x.t = "int"  -> x.v # 0
      [] x.t = "bool" -> x.v
      [] x.t = "list" -> x.v # <<>>
      [] x.t = "dict" -> DOMAIN x.v # {}

\* sep.join(l) for a list of strings
RECURSIVE join(_, _)
join(sep, l) ==
    IF l = <<>> THEN ""
    ELSE IF Len(l) = 1 THEN l[1]
    ELSE l[1] \o sep \o join(sep, Tail(l))

(***************************************************************************)
(* The intent classifier's reading of the model reply.  A reply is a       *)
(* sequence of characters.                                                 *)
(***************************************************************************)
Whitespace == {" ", "\n", "\t"}

lowerChar(c) ==
    CASE c = "T" -> "t"
      [] c = "R" -> "r"
      [] c = "U" -> "u"
      [] c = "E" -> "e"
      [] OTHER   -> c

\* str.lower()
lower(s) == [i \in 1..Len(s) |-> lowerChar(s[i])]

\* str.strip(): drops the leading and the trailing whitespace
RECURSIVE lstrip(_)
lstrip(s) == IF s # <<>> /\ Head(s) \in Whitespace THEN lstrip(Tail(s)) ELSE s

RECURSIVE rstrip(_)
rstrip(s) ==
    IF s # <<>> /\ s[Len(s)] \in Whitespace THEN rstrip(SubSeq(s, 1, Len(s) - 1)) ELSE s

strip(s) == rstrip(lstrip(s))

TrueText == <<"t", "r", "u", "e">>

\* a mutation of reply_is_true: the reply is not stripped
reply_is_true_unstripped(c) == lower(c) = TrueText

\* the comparison of line 31
reply_is_true(c) == strip(lower(c)) = TrueText

\* is_recipe_query (lines 22-31): the reply decides the boolean
is_recipe_query(c) == reply_is_true(c)

(***************************************************************************)
(* search_recipes (lines 33-70): the query parameters.                     *)
(***************************************************************************)
PageSize == 5

base_url == "https://api.spoonacular.com/recipes/complexSearch"

FilterNames == {"ingredients", "cuisine", "diet", "intolerances", "meal_type",
                "max_ready_time", "min_protein", "max_calories", "sort"}

base_params(key) ==
    [apiKey |-> PyStr(key), addRecipeInformation |-> PyBool(TRUE),
     fillIngredients |-> PyBool(TRUE), number |-> PyInt(PageSize)]

\* a mutation of ingredients_param: tests "is not None" instead of truthiness
ingredients_param_not_none(a) ==
    IF a.ingredients # None
    THEN "includeIngredients" :> PyStr(join(",", a.ingredients.v))
    ELSE EmptyMap

ingredients_param(a) ==
    IF Truthy(a.ingredients)
    THEN "includeIngredients" :> PyStr(join(",", a.ingredients.v))
    ELSE EmptyMap

cuisine_param(a) == IF Truthy(a.cuisine) THEN "cuisine" :> a.cuisine ELSE EmptyMap

diet_param(a) == IF Truthy(a.diet) THEN "diet" :> a.diet ELSE EmptyMap

intolerances_param(a) ==
    IF Truthy(a.intolerances)
    THEN "intolerances" :> PyStr(join(",", a.intolerances.v))
    ELSE EmptyMap

meal_type_param(a) == IF Truthy(a.meal_type) THEN "type" :> a.meal_type ELSE EmptyMap

max_ready_time_param(a) ==
    IF Truthy(a.max_ready_time) THEN "maxReadyTime" :> a.max_ready_time ELSE EmptyMap

min_protein_param(a) ==
    IF Truthy(a.min_protein) THEN "minProtein" :> a.min_protein ELSE EmptyMap

max_calories_param(a) ==
    IF Truthy(a.max_calories) THEN "maxCalories" :> a.max_calories ELSE EmptyMap

sort_param(a) == IF Truthy(a.sort) THEN "sort" :> a.sort ELSE EmptyMap

\* the params dict handed to requests.get at line 69
search_params(key, a) ==
    base_params(key) @@ ingredients_param(a) @@ cuisine_param(a) @@ diet_param(a)
        @@ intolerances_param(a) @@ meal_type_param(a) @@ max_ready_time_param(a)
        @@ min_protein_param(a) @@ max_calories_param(a) @@ sort_param(a)

\* the defaults of the signature (lines 34-42)
default_kwargs == [n \in FilterNames |-> None]

(***************************************************************************)
(* JSON texts on the wire and what json.loads / response.json() / json.dumps *)
(* make of them.                                                           *)
(***************************************************************************)
ArgsChickenRice == "{\"ingredients\": [\"chicken\", \"rice\"]}"

ArgsItalianNoIngredients == "{\"ingredients\": [], \"cuisine\": \"Italian\", \"max_ready_time\": 0}"

ArgsTruncated == "{\"ingredients\": [\"chicken\""

ArgsNotAnObject == "[\"chicken\"]"

ArgsUnknownKey == "{\"query\": \"pasta\"}"

BodyNoRecipes == "{\"results\": [], \"totalResults\": 0}"

BodyOneRecipe == "{\"results\": [{\"title\": \"Chicken Rice\", \"readyInMinutes\": 30, \"servings\": 4, \"sourceUrl\": \"https://example.org/1\"}]}"

BodyTwoRecipes == "{\"results\": [{\"title\": \"Chicken Rice\", \"readyInMinutes\": 30, \"servings\": 4, \"sourceUrl\": \"https://example.org/1\"}, {\"title\": \"Rice Soup\", \"readyInMinutes\": 45, \"servings\": 2, \"sourceUrl\": \"https://example.org/2\"}]}"

BodyEmptyObject == "{}"

BodyNoResultsKey == "{\"totalResults\": 0}"

BodyUnauthorized == "{\"status\": \"failure\", \"code\": 401, \"message\": \"You are not authorized.\"}"

BodyHtml == "<html>Bad Gateway</html>"

RecipeChickenRice ==
    PyDict([title |-> PyStr("Chicken Rice"), readyInMinutes |-> PyInt(30),
            servings |-> PyInt(4), sourceUrl |-> PyStr("https://example.org/1")])

RecipeRiceSoup ==
    PyDict([title |-> PyStr("Rice Soup"), readyInMinutes |-> PyInt(45),
            servings |-> PyInt(2), sourceUrl |-> PyStr("https://example.org/2")])

JsonTexts == {ArgsChickenRice, ArgsItalianNoIngredients, ArgsNotAnObject, ArgsUnknownKey,
              BodyNoRecipes, BodyOneRecipe, BodyTwoRecipes, BodyEmptyObject,
              BodyNoResultsKey, BodyUnauthorized}

\* json.loads(text): [ok |-> FALSE] stands for JSONDecodeError
json_loads(text) ==
    CASE text = ArgsChickenRice ->
            [ok |-> TRUE, value |-> PyDict("ingredients" :> PyList(<<"chicken", "rice">>))]
      [] text = ArgsItalianNoIngredients ->
            [ok |-> TRUE,
             value |-> PyDict([ingredients |-> PyList(<<>>), cuisine |-> PyStr("Italian"),
                               max_ready_time |-> PyInt(0)])]
      [] text = ArgsNotAnObject ->
            [ok |-> TRUE, value |-> PyList(<<"chicken">>)]
      [] text = ArgsUnknownKey ->
            [ok |-> TRUE, value |-> PyDict("query" :> PyStr("pasta"))]
      [] text = BodyNoRecipes ->
            [ok |-> TRUE,
             value |-> PyDict([results |-> PyList(<<>>), totalResults |-> PyInt(0)])]
      [] text = BodyOneRecipe ->
            [ok |-> TRUE, value |-> PyDict("results" :> PyList(<<RecipeChickenRice>>))]
      [] text = BodyTwoRecipes ->
            [ok |-> TRUE,
             value |-> PyDict("results" :> PyList(<<RecipeChickenRice, RecipeRiceSoup>>))]
      [] text = BodyEmptyObject ->
            [ok |-> TRUE, value |-> PyDict(EmptyMap)]
      [] text = BodyNoResultsKey ->
            [ok |-> TRUE, value |-> PyDict("totalResults" :> PyInt(0))]
      [] text = BodyUnauthorized ->
            [ok |-> TRUE,
             value |-> PyDict([status |-> PyStr("failure"), code |-> PyInt(401),
                               message |-> PyStr("You are not authorized.")])]
      [] OTHER -> [ok |-> FALSE, value |-> None]

\* json.dumps(value): the text that parses back to the value
json_dumps(value) == CHOOSE text \in JsonTexts : json_loads(text).value = value

(***************************************************************************)
(* The bounded environment: prompts, keys and what the two services answer. *)
(***************************************************************************)
MaxLog == 4

Prompts == {"chicken and rice", "What's the capital of France?"}

MistralKeys == {"", "mk"}

SpoonacularKeys == {"", "sk"}

\* an external call either raises or gives a value
Raises(msg) == [raised |-> TRUE, error |-> msg]

Gives(value) == [raised |-> FALSE, value |-> value]

ClassifierReplies ==
    {Raises("API error"), Gives(<<"t", "r", "u", "e">>), Gives(<<" ", "T", "r", "u", "e", "\n">>),
     Gives(<<"t", "r", "u", "e", ".">>), Gives(<<"f", "a", "l", "s", "e">>)}

ToolCall(id, text) == [id |-> id, name |-> "search_recipes", arguments |-> text]

AssistantMessage(text, tool_calls) ==
    [role |-> "assistant", content |-> text, tool_calls |-> tool_calls]

ToolReplies ==
    {Raises("API error"),
     Gives(AssistantMessage("Try a chicken and rice bowl.", None)),
     Gives(AssistantMessage("", PyList(<<>>)))}
    \cup {Gives(AssistantMessage("", PyList(<<ToolCall("c1", text)>>))) :
            text \in {ArgsChickenRice, ArgsItalianNoIngredients, ArgsTruncated,
                      ArgsNotAnObject, ArgsUnknownKey}}
    \cup {Gives(AssistantMessage("", PyList(<<ToolCall("c1", ArgsItalianNoIngredients),
                                              ToolCall("c2", ArgsChickenRice)>>)))}

HttpResponse(status, text) == [status_code |-> status, text |-> text]

SearchReplies ==
    {Raises("Connection refused"),
     Gives(HttpResponse(200, BodyNoRecipes)), Gives(HttpResponse(200, BodyOneRecipe)),
     Gives(HttpResponse(200, BodyTwoRecipes)), Gives(HttpResponse(200, BodyEmptyObject)),
     Gives(HttpResponse(200, BodyNoResultsKey)), Gives(HttpResponse(401, BodyUnauthorized)),
     Gives(HttpResponse(502, BodyHtml))}

NarrationReplies == {Raises("API error"), Gives("Here is what I found.")}

ChatReplies == {Raises("API error"), Gives("Paris.")}

(***************************************************************************)
(* process_message (lines 144-188) and the methods it calls.               *)
(***************************************************************************)
UserMessage(message) == [role |-> "user", content |-> message]

\* the classification prompt (lines 24-25)
classifier_prompt(message) ==
    "Determine if this message is asking about recipes, cooking, food, or ingredients. Respond with just 'true' or 'false': "
        \o message

\* the call records: which call site, what was sent, what came back
CompletionCall(step, messages, with_tools, reply) ==
    [step |-> step, api |-> "chat.complete", messages |-> messages, tools |-> with_tools,
     reply |-> reply]

GetCall(step, url, query, reply) ==
    [step |-> step, api |-> "requests.get", url |-> url, params |-> query, reply |-> reply]

NewFrame ==
    [is_recipe |-> FALSE, messages |-> <<>>, response |-> None, tool_call |-> None,
     function_args |-> None, results |-> None]

NoOutcome == [kind |-> "none"]

\* return response, results, is_recipe (lines 181, 185)
Returned(response, results, is_recipe) ==
    [kind |-> "returned", response |-> response, results |-> results,
     is_recipe |-> is_recipe]

\* raise Exception(f"Error processing message: {str(e)}") (lines 187-188)
Raised(msg) == [kind |-> "raised", message |-> "Error processing message: " \o msg]

\* a mutation of route: a message that is not food-related is searched all the same
route_always_search(is_recipe) == "tool_complete"

\* the branch of lines 150 and 182
route(is_recipe) == IF is_recipe THEN "tool_complete" ELSE "chat"

\* a mutation of first_tool_call: takes the last tool call
last_tool_call(tool_calls) == tool_calls[Len(tool_calls)]

\* tool_calls[0] (line 161)
first_tool_call(tool_calls) == tool_calls[1]

\* search_recipes(**function_args): binding the dict to the signature (line 164)
bind_kwargs(d) == [n \in FilterNames |-> IF n \in DOMAIN d THEN d[n] ELSE None]

\* a mutation of extract_call: a missing tool call becomes a search with no filter
extract_call_lenient(message) ==
    IF message.tool_calls = None \/ message.tool_calls.v = <<>>
    THEN [raised |-> FALSE, tool_call |-> ToolCall("none", BodyEmptyObject),
          function_args |-> PyDict(EmptyMap)]
    ELSE LET tool_call == first_tool_call(message.tool_calls.v)
             parsed == json_loads(tool_call.arguments)
         IN  IF ~parsed.ok THEN Raises("Expecting ',' delimiter")
             ELSE [raised |-> FALSE, tool_call |-> tool_call, function_args |-> parsed.value]

\* lines 161-164 up to the entry of search_recipes: the tool call, its arguments
extract_call(message) ==
    IF message.tool_calls = None THEN Raises("'NoneType' object is not subscriptable")
    ELSE IF message.tool_calls.v = <<>> THEN Raises("list index out of range")
    ELSE LET tool_call == first_tool_call(message.tool_calls.v)
             parsed == json_loads(tool_call.arguments)
         IN  IF ~parsed.ok THEN Raises("Expecting ',' delimiter")
             ELSE IF parsed.value.t # "dict"
             THEN Raises("argument after ** must be a mapping, not list")
             ELSE IF ~(DOMAIN parsed.value.v \subseteq FilterNames)
             THEN Raises("search_recipes() got an unexpected keyword argument")
             ELSE [raised |-> FALSE, tool_call |-> tool_call,
                   function_args |-> parsed.value]

\* the tool result appended at lines 166-174
ToolMessage(tool_call, results) ==
    [role |-> "tool", name |-> tool_call.name, content |-> json_dumps(results),
     tool_call_id |-> tool_call.id]

(***************************************************************************)
(* main() (lines 190-263): one run of the Streamlit script.                *)
(***************************************************************************)
\* a mutation of init_session: the log is reset by every script run
init_session_always(ss) == "messages" :> <<>>

\* lines 202-203(ss) == "messages" :> <<>>

init_session(ss) == IF "messages" \notin DOMAIN ss THEN ss @@ ("messages" :> <<>>) ELSE ss

\* the conversation log held in the session
Log == IF "messages" \in DOMAIN session_state THEN session_state["messages"] ELSE <<>>

\* a mutation of has_recipes: does not look whether the list is empty
has_results_key(results) == Truthy(results) /\ "results" \in DOMAIN results.v

\* results and 'results' in results and results['results'] (lines 212, 245)
has_recipes(results) ==
    Truthy(results) /\ "results" \in DOMAIN results.v /\ Truthy(results.v["results"])

NoRecipes == [columns_made |-> FALSE, cards |-> <<>>]

\* lines 213-221 and 246-254: one column per recipe, four fields read of each
show_recipes(results) ==
    LET recipes == results.v["results"].v
    IN  [columns_made |-> TRUE,
         cards |-> [i \in 1..Len(recipes) |->
                      [title |-> recipes[i].v["title"],
                       ready |-> recipes[i].v["readyInMinutes"],
                       servings |-> recipes[i].v["servings"],
                       link |-> recipes[i].v["sourceUrl"]]]]

\* lines 207-221: one message of the history
history_entry(message) ==
    [role |-> message.role, content |-> message.content,
     recipes |-> IF "results" \in DOMAIN message /\ has_recipes(message.results)
                 THEN show_recipes(message.results) ELSE NoRecipes]

\* lines 206-221
display_history(messages) == [i \in 1..Len(messages) |-> history_entry(messages[i])]

\* lines 242-254
display_live(response, results, is_recipe) ==
    [shown |-> TRUE, response |-> response,
     recipes |-> IF is_recipe /\ has_recipes(results)
                 THEN show_recipes(results) ELSE NoRecipes]

NoLive == [shown |-> FALSE]

\* lines 257-259
response_message(response, results, is_recipe) ==
    IF is_recipe /\ Truthy(results)
    THEN [role |-> "assistant", content |-> response, results |-> results]
    ELSE [role |-> "assistant", content |-> response]

KeyMissingText == "Please enter your Mistral API key in the sidebar to continue."

\* a mutation of key_missing: the prompt is handled without a key
key_never_missing(key) == FALSE

\* if not mistral_api_key (line 225)
key_missing(key) == ~Truthy(PyStr(key))

Page(history, user, live, error) ==
    [history |-> history, user |-> user, live |-> live, error |-> error]

harness == <<content, verdict, kwargs, params>>

\* a script run that a change of the sidebar inputs starts: no prompt (lines 190-224)
SidebarInput ==
    /\ pc = "idle"
    /\ \E m \in MistralKeys, k \in SpoonacularKeys :
         /\ <<m, k>> # <<mistral_api_key, spoonacular_api_key>>
         /\ mistral_api_key' = m
         /\ spoonacular_api_key' = k
    /\ session_state' = init_session(session_state)
    /\ page' = Page(display_history(session_state'["messages"]), "", NoLive, "")
    /\ UNCHANGED <<pc, prompt, frame, calls, outcome, harness>>

\* a script run that a submitted prompt starts (lines 190-232)
ChatInput ==
    /\ pc = "idle"
    /\ \E p \in Prompts :
         LET ss == init_session(session_state)
             history == display_history(ss["messages"])
         IN  /\ prompt' = p
             /\ frame' = NewFrame
             /\ calls' = <<>>
             /\ outcome' = NoOutcome
             /\ IF key_missing(mistral_api_key)
                THEN /\ session_state' = ss
                     /\ page' = Page(history, "", NoLive, KeyMissingText)
                     /\ pc' = "idle"
                ELSE /\ Len(ss["messages"]) + 2 <= MaxLog
                     /\ session_state' =
                          [ss EXCEPT !["messages"] = Append(@, UserMessage(p))]
                     /\ page' = Page(history, p, NoLive, "")
                     /\ pc' = "is_recipe_query"
    /\ UNCHANGED <<mistral_api_key, spoonacular_api_key, harness>>

\* process_message raises: the except clause of lines 187-188
Raise(msg) ==
    /\ outcome' = Raised(msg)
    /\ pc' = "raised"

\* is_recipe = assistant.is_recipe_query(message) (lines 148, 22-31)
IsRecipeQuery ==
    /\ pc = "is_recipe_query"
    /\ \E reply \in ClassifierReplies :
         /\ calls' = Append(calls, CompletionCall("is_recipe_query",
                        <<UserMessage(classifier_prompt(prompt))>>, FALSE, reply))
         /\ IF reply.raised
            THEN /\ Raise(reply.error)
                 /\ frame' = frame
            ELSE /\ frame' = [frame EXCEPT !.is_recipe = is_recipe_query(reply.value)]
                 /\ pc' = route(frame'.is_recipe)
                 /\ outcome' = outcome
    /\ UNCHANGED <<session_state, mistral_api_key, spoonacular_api_key, prompt, page,
                   harness>>

\* the tool-enabled completion and the reading of its tool call (lines 152-164)
ToolComplete ==
    /\ pc = "tool_complete"
    /\ \E reply \in ToolReplies :
         /\ calls' = Append(calls, CompletionCall("tool_complete",
                        <<UserMessage(prompt)>>, TRUE, reply))
         /\ IF reply.raised
            THEN /\ Raise(reply.error)
                 /\ frame' = [frame EXCEPT !.messages = <<UserMessage(prompt)>>]
            ELSE LET got == extract_call(reply.value)
                 IN  IF got.raised
                     THEN /\ Raise(got.error)
                          /\ frame' = [frame EXCEPT !.messages = <<UserMessage(prompt)>>,
                                                    !.response = reply.value]
                     ELSE /\ frame' = [frame EXCEPT !.messages = <<UserMessage(prompt)>>,
                                                    !.response = reply.value,
                                                    !.tool_call = got.tool_call,
                                                    !.function_args = got.function_args]
                          /\ pc' = "search_recipes"
                          /\ outcome' = outcome
    /\ UNCHANGED <<session_state, mistral_api_key, spoonacular_api_key, prompt, page,
                   harness>>

\* results = assistant.search_recipes(**function_args) (lines 164-174, 33-70)
SearchRecipes ==
    /\ pc = "search_recipes"
    /\ \E reply \in SearchReplies :
         /\ calls' = Append(calls, GetCall("search_recipes", base_url,
                        search_params(spoonacular_api_key,
                                      bind_kwargs(frame.function_args.v)), reply))
         /\ IF reply.raised
            THEN /\ Raise(reply.error)
                 /\ frame' = frame
            ELSE LET parsed == json_loads(reply.value.text)
                 IN  IF ~parsed.ok
                     THEN /\ Raise("Expecting value: line 1 column 1 (char 0)")
                          /\ frame' = frame
                     ELSE /\ frame' =
                               [frame EXCEPT
                                  !.results = parsed.value,
                                  !.messages = @ \o <<frame.response,
                                      ToolMessage(frame.tool_call, parsed.value)>>]
                          /\ pc' = "final_complete"
                          /\ outcome' = outcome
    /\ UNCHANGED <<session_state, mistral_api_key, spoonacular_api_key, prompt, page,
                   harness>>

\* the second completion, which narrates the results (lines 176-181)
FinalComplete ==
    /\ pc = "final_complete"
    /\ \E reply \in NarrationReplies :
         /\ calls' = Append(calls, CompletionCall("final_complete", frame.messages,
                                                  FALSE, reply))
         /\ IF reply.raised
            THEN Raise(reply.error)
            ELSE /\ outcome' = Returned(reply.value, frame.results, TRUE)
                 /\ pc' = "returned"
    /\ UNCHANGED <<session_state, mistral_api_key, spoonacular_api_key, prompt, frame,
                   page, harness>>

\* chat_response = assistant.chat(message) (lines 184-185, 14-20)
Chat ==
    /\ pc = "chat"
    /\ \E reply \in ChatReplies :
         /\ calls' = Append(calls, CompletionCall("chat", <<UserMessage(prompt)>>,
                                                  FALSE, reply))
         /\ IF reply.raised
            THEN Raise(reply.error)
            ELSE /\ outcome' = Returned(reply.value, None, FALSE)
                 /\ pc' = "returned"
    /\ UNCHANGED <<session_state, mistral_api_key, spoonacular_api_key, prompt, frame,
                   page, harness>>

\* process_message returned: the response is shown and logged (lines 239-260)
ShowResponse ==
    /\ pc = "returned"
    /\ page' = [page EXCEPT !.live = display_live(outcome.response, outcome.results,
                                                  outcome.is_recipe)]
    /\ session_state' =
         [session_state EXCEPT !["messages"] =
            Append(@, response_message(outcome.response, outcome.results,
                                       outcome.is_recipe))]
    /\ pc' = "idle"
    /\ UNCHANGED <<mistral_api_key, spoonacular_api_key, prompt, frame, calls, outcome,
                   harness>>

\* process_message raised: the error is shown (lines 262-263)
ShowError ==
    /\ pc = "raised"
    /\ page' = [page EXCEPT !.error = "An error occurred: " \o outcome.message]
    /\ pc' = "idle"
    /\ UNCHANGED <<session_state, mistral_api_key, spoonacular_api_key, prompt, frame,
                   calls, outcome, harness>>

Init ==
    /\ session_state = EmptyMap
    /\ mistral_api_key = ""
    /\ spoonacular_api_key = ""
    /\ pc = "idle"
    /\ prompt = ""
    /\ frame = NewFrame
    /\ calls = <<>>
    /\ outcome = NoOutcome
    /\ page = Page(<<>>, "", NoLive, "")
    /\ content = <<>>
    /\ verdict = FALSE
    /\ kwargs = default_kwargs
    /\ params = EmptyMap

Next ==
    \/ SidebarInput
    \/ ChatInput
    \/ IsRecipeQuery
    \/ ToolComplete
    \/ SearchRecipes
    \/ FinalComplete
    \/ Chat
    \/ ShowResponse
    \/ ShowError

Spec == Init /\ [][Next]_vars

(***************************************************************************)
(* The classifier on its own: every reply up to MaxReply characters.       *)
(***************************************************************************)
MaxReply == 5

ReplyAlphabet == {"t", "T", "r", "u", "e", " ", "."}

SeqsUpTo(S, n) == UNION {[1..k -> S] : k \in 0..n}

InitClassifier ==
    /\ session_state = EmptyMap
    /\ mistral_api_key = "mk"
    /\ spoonacular_api_key = "sk"
    /\ pc = "classifier_check"
    /\ prompt = ""
    /\ frame = NewFrame
    /\ calls = <<>>
    /\ outcome = NoOutcome
    /\ page = Page(<<>>, "", NoLive, "")
    /\ content \in SeqsUpTo(ReplyAlphabet, MaxReply)
    /\ verdict = FALSE
    /\ kwargs = default_kwargs
    /\ params = EmptyMap

\* return response.choices[0].message.content.lower().strip() == "true" (line 31)
ClassifyReply ==
    /\ pc = "classifier_check"
    /\ verdict' = is_recipe_query(content)
    /\ pc' = "classifier_checked"
    /\ UNCHANGED <<session_state, mistral_api_key, spoonacular_api_key, prompt, frame,
                   calls, outcome, page, content, kwargs, params>>

SpecClassifier == InitClassifier /\ [][ClassifyReply]_vars

(***************************************************************************)
(* search_recipes on its own: every combination of the nine arguments.     *)
(***************************************************************************)
MaxList == 2

StringArgs(S) == {None, PyStr("")} \cup {PyStr(x) : x \in S}

ListArgs(S, n) == {None} \cup {PyList(l) : l \in SeqsUpTo(S, n)}

IntArgs(S) == {None, PyInt(0)} \cup {PyInt(x) : x \in S}

KwargsSpace ==
    [ingredients : ListArgs({"chicken", "rice"}, MaxList),
     cuisine : StringArgs({"Italian"}),
     diet : StringArgs({"Vegan"}),
     intolerances : ListArgs({"Dairy"}, MaxList),
     meal_type : StringArgs({"main course"}),
     max_ready_time : IntArgs({30}),
     min_protein : IntArgs({20}),
     max_calories : IntArgs({500}),
     sort : StringArgs({"time"})]

InitSearch ==
    /\ session_state = EmptyMap
    /\ mistral_api_key = "mk"
    /\ spoonacular_api_key = "sk"
    /\ pc = "search_check"
    /\ prompt = ""
    /\ frame = NewFrame
    /\ calls = <<>>
    /\ outcome = NoOutcome
    /\ page = Page(<<>>, "", NoLive, "")
    /\ content = <<>>
    /\ verdict = FALSE
    /\ kwargs \in KwargsSpace
    /\ params = EmptyMap

\* the params of lines 43-67, as handed to requests.get at line 69
BuildParams ==
    /\ pc = "search_check"
    /\ params' = search_params(spoonacular_api_key, kwargs)
    /\ pc' = "search_checked"
    /\ UNCHANGED <<session_state, mistral_api_key, spoonacular_api_key, prompt, frame,
                   calls, outcome, page, content, verdict, kwargs>>

SpecSearch == InitSearch /\ [][BuildParams]_vars

(***************************************************************************)
(* The properties.                                                         *)
(***************************************************************************)
IsPrefix(s, t) == Len(s) <= Len(t) /\ SubSeq(t, 1, Len(s)) = s

Last(s) == s[Len(s)]

Steps == [i \in 1..Len(calls) |-> calls[i].step]

\* a reply that is "true" once surrounding whitespace and letter case are set aside
ReadsAsTrue(c) ==
    \E a \in 0..Len(c) :
        /\ a + 4 <= Len(c)
        /\ \A k \in 1..a : c[k] \in Whitespace
        /\ \A k \in (a + 5)..Len(c) : c[k] \in Whitespace
        /\ c[a + 1] \in {"t", "T"}
        /\ c[a + 2] \in {"r", "R"}
        /\ c[a + 3] \in {"u", "U"}
        /\ c[a + 4] \in {"e", "E"}

\* C9: the classifier returns true exactly when the reply, trimmed of surrounding
\* whitespace and lower-cased, is "true"; every other reply gives false.
C9_ClassifierExact == pc = "classifier_checked" => (verdict <=> ReadsAsTrue(content))

C9_Witness ==
    /\ pc = "classifier_checked"
    /\ verdict
    /\ content = <<" ", "T", "r", "u", "e">>

Wire ==
    [ingredients |-> "includeIngredients", cuisine |-> "cuisine", diet |-> "diet",
     intolerances |-> "intolerances", meal_type |-> "type",
     max_ready_time |-> "maxReadyTime", min_protein |-> "minProtein",
     max_calories |-> "maxCalories", sort |-> "sort"]

Falsy == {None, PyStr(""), PyInt(0), PyList(<<>>)}

RECURSIVE CommaJoined(_, _)
CommaJoined(l, n) == IF n = 1 THEN l[1] ELSE CommaJoined(l, n - 1) \o "," \o l[n]

WireValue(x) == IF x.t = "list" THEN PyStr(CommaJoined(x.v, Len(x.v))) ELSE x

\* C3: the outbound query parameters are the fixed base plus, for each of the nine
\* filters, its wire parameter iff the argument is present and truthy; a list goes out
\* comma-joined in order, and an empty list is omitted, never sent as "".
C3_ParamsExact ==
    pc = "search_checked" =>
        /\ DOMAIN params =
             {"apiKey", "addRecipeInformation", "fillIngredients", "number"}
                \cup {Wire[f] : f \in {g \in FilterNames : kwargs[g] \notin Falsy}}
        /\ params["apiKey"] = PyStr(spoonacular_api_key)
        /\ params["addRecipeInformation"] = PyBool(TRUE)
        /\ params["fillIngredients"] = PyBool(TRUE)
        /\ params["number"] = PyInt(5)
        /\ \A f \in FilterNames :
             kwargs[f] \notin Falsy => params[Wire[f]] = WireValue(kwargs[f])
        /\ \A f \in FilterNames :
             kwargs[f] = PyList(<<>>) => Wire[f] \notin DOMAIN params

C3_Witness ==
    /\ pc = "search_checked"
    /\ kwargs["ingredients"] = PyList(<<"chicken", "rice">>)
    /\ kwargs["intolerances"] = PyList(<<>>)
    /\ kwargs["max_ready_time"] = PyInt(0)
    /\ params["includeIngredients"] = PyStr("chicken,rice")

Handling == {"is_recipe_query", "tool_complete", "search_recipes", "final_complete",
             "chat", "returned", "raised"}

\* C1, as the specification states it: a message that is not food-related is answered
\* with a fixed decline text and no results, and no external call follows the
\* classification call.
C1_DeclineWithoutCalls ==
    (outcome.kind = "returned" /\ ~outcome.is_recipe) =>
        /\ Steps = <<"is_recipe_query">>
        /\ outcome.results = None

\* C1, amended: a message that is not food-related is answered by one plain chat
\* completion of the user message (no tools), whose text is returned with no results
\* and the recipe flag unset; no tool-enabled completion and no recipe search is issued.
C1_PlainChatWhenNotFood ==
    /\ (outcome.kind = "returned" /\ ~outcome.is_recipe) =>
         /\ Steps = <<"is_recipe_query", "chat">>
         /\ calls[2].messages = <<UserMessage(prompt)>>
         /\ ~calls[2].tools
         /\ outcome.response = calls[2].reply.value
         /\ outcome.results = None
    /\ (calls # <<>> /\ ~calls[1].reply.raised /\ ~ReadsAsTrue(calls[1].reply.value)) =>
         /\ IsPrefix(Steps, <<"is_recipe_query", "chat">>)
         /\ pc \in {"chat", "returned", "raised", "idle"}
         /\ (outcome.kind = "none" <=> pc = "chat")

C1_Witness ==
    /\ pc = "idle"
    /\ outcome.kind = "returned"
    /\ ~outcome.is_recipe
    /\ ~ReadsAsTrue(calls[1].reply.value)
    /\ Len(calls) = 2

\* C2: for a food-related message with every call succeeding the calls are, in order,
\* classification, tool-enabled completion, one search with the arguments parsed from
\* the first tool call, and a second completion over the user message, the model's
\* tool-call message and the tool result; the second completion's text is returned with
\* the unmodified search response and the recipe flag set.
C2_RecipeFlow ==
    /\ IsPrefix(Steps, <<"is_recipe_query", "tool_complete", "search_recipes",
                         "final_complete">>)
         \/ IsPrefix(Steps, <<"is_recipe_query", "chat">>)
    /\ (calls # <<>> /\ ~calls[1].reply.raised /\ ReadsAsTrue(calls[1].reply.value)
          /\ pc = "idle" /\ \A i \in 1..Len(calls) : ~calls[i].reply.raised
          /\ outcome.kind # "raised") =>
         (outcome.kind = "returned" /\ outcome.is_recipe)
    /\ (outcome.kind = "returned" /\ outcome.is_recipe) =>
         LET message == calls[2].reply.value
             tool_call == message.tool_calls.v[1]
             args == json_loads(tool_call.arguments).value.v
             body == json_loads(calls[3].reply.value.text).value
         IN  /\ Steps = <<"is_recipe_query", "tool_complete", "search_recipes",
                          "final_complete">>
             /\ ReadsAsTrue(calls[1].reply.value)
             /\ calls[2].tools
             /\ calls[2].messages = <<UserMessage(prompt)>>
             /\ calls[3].params =
                  search_params(calls[3].params["apiKey"].v,
                                [n \in FilterNames |->
                                   IF n \in DOMAIN args THEN args[n] ELSE None])
             /\ ~calls[4].tools
             /\ Len(calls[4].messages) = 3
             /\ calls[4].messages[1] = UserMessage(prompt)
             /\ calls[4].messages[2] = message
             /\ calls[4].messages[3].role = "tool"
             /\ calls[4].messages[3].tool_call_id = tool_call.id
             /\ json_loads(calls[4].messages[3].content).value = body
             /\ outcome.response = calls[4].reply.value
             /\ outcome.results = body

C2_Witness ==
    /\ pc = "idle"
    /\ outcome.kind = "returned"
    /\ outcome.is_recipe
    /\ Len(calls[2].reply.value.tool_calls.v) = 2
    /\ calls[3].params["cuisine"] = PyStr("Italian")

NoUsableCall(message) ==
    \/ message.tool_calls = None
    \/ message.tool_calls.v = <<>>
    \/ ~json_loads(message.tool_calls.v[1].arguments).ok

\* C4: when the tool-enabled completion carries no tool call, or argument text that is
\* not JSON, process_message ends in an error surfaced to the caller: no search, no
\* second completion, no fall-back to plain chat, no response value.
C4_NoToolCallRaises ==
    (Len(calls) >= 2 /\ calls[2].step = "tool_complete" /\ ~calls[2].reply.raised
       /\ NoUsableCall(calls[2].reply.value)) =>
        /\ Len(calls) = 2
        /\ outcome.kind = "raised"
        /\ pc \in {"raised", "idle"}
        /\ (pc = "idle" /\ page.user = prompt) =>
             /\ page.error = "An error occurred: " \o outcome.message
             /\ ~page.live.shown
             /\ Last(Log) = UserMessage(prompt)

C4_Witness ==
    /\ pc = "idle"
    /\ Len(calls) = 2
    /\ calls[2].step = "tool_complete"
    /\ ~calls[2].reply.raised
    /\ calls[2].reply.value.tool_calls = PyList(<<>>)
    /\ outcome.kind = "raised"

SearchFailed(call) ==
    /\ call.step = "search_recipes"
    /\ \/ call.reply.raised
       \/ call.reply.value.status_code \notin 200..299

\* C5: a search that fails at the network level or is answered with a non-2xx status
\* ends in a wrapped error re-raised to the caller; a non-2xx body is never returned as
\* a search result nor passed on to the second completion or the display.
C5_SearchFailureRaises ==
    \A i \in 1..Len(calls) :
        SearchFailed(calls[i]) =>
            /\ i = Len(calls)
            /\ outcome.kind = "raised"
            /\ frame.results = None

MessageResults(message) == IF "results" \in DOMAIN message THEN message.results ELSE None

LacksRecipes(results) ==
    \/ results = None
    \/ "results" \notin DOMAIN results.v
    \/ results.v["results"] = PyList(<<>>)

\* C6: for a search response whose results list is empty or missing, or for no results
\* at all, neither the live display nor the history replay reads a recipe field or
\* makes recipe columns.
C6_NoRecipeFieldsWithoutRecipes ==
    /\ \A i \in 1..Len(page.history) :
         LacksRecipes(MessageResults(Log[i])) => page.history[i].recipes = NoRecipes
    /\ (page.live.shown /\ LacksRecipes(outcome.results)) =>
         page.live.recipes = NoRecipes

C6_Witness ==
    /\ page.live.shown
    /\ outcome.results = json_loads(BodyNoRecipes).value
    /\ \E i \in 1..Len(page.history) :
         /\ "results" \in DOMAIN Log[i]
         /\ Log[i].results = json_loads(BodyNoRecipes).value

\* C7: the session conversation log is append-only: every step leaves the earlier log
\* a prefix of the later one.
C7_LogAppendOnly == [][IsPrefix(Log, Log')]_vars

C7_Witness ==
    /\ Len(Log) >= 3
    /\ page.error = KeyMissingText
    /\ \E i \in 1..Len(Log) : Log[i].role = "assistant"
    /\ Last(Log).role = "user"

CallFailed(call) ==
    \/ call.reply.raised
    \/ call.api = "requests.get" /\ call.reply.value.status_code \notin 200..299

\* C8: no step is issued twice while one message is handled, and once a step fails no
\* later step is issued and the outcome is one wrapped error shown by the outermost
\* handler, not a response.
C8_FailStop ==
    /\ \A i, j \in 1..Len(calls) : i # j => calls[i].step # calls[j].step
    /\ \A i \in 1..Len(calls) :
         CallFailed(calls[i]) =>
             /\ i = Len(calls)
             /\ pc = "idle" => outcome.kind = "raised"
             /\ (pc = "idle" /\ page.user = prompt) =>
                  /\ page.error = "An error occurred: " \o outcome.message
                  /\ ~page.live.shown

C10_State ==
    /\ pc \in Handling => Log # <<>> /\ Last(Log) = UserMessage(prompt)
    /\ pc = "is_recipe_query" => calls = <<>>
    /\ calls # <<>> => Log # <<>>
    /\ (pc = "idle" /\ outcome.kind = "raised") =>
         Log # <<>> /\ Last(Log) = UserMessage(prompt)
    /\ (pc = "idle" /\ outcome.kind = "returned") =>
         /\ Len(Log) >= 2
         /\ Log[Len(Log) - 1] = UserMessage(prompt)
         /\ Last(Log).role = "assistant"
         /\ Last(Log).content = outcome.response

C10_Step ==
    /\ (pc = "idle" /\ mistral_api_key = "") =>
         Log' = Log /\ calls' \in {calls, <<>>} /\ pc' = "idle"
    /\ (pc = "idle" /\ pc' # "idle") =>
         Log' = Append(Log, UserMessage(prompt')) /\ calls' = <<>>
    /\ pc = "returned" =>
         Len(Log') = Len(Log) + 1 /\ IsPrefix(Log, Log') /\ Last(Log').role = "assistant"
    /\ pc \in Handling \ {"returned"} => Log' = Log
    /\ (pc = "idle" /\ pc' = "idle") => Log' = Log

\* C10: with a Mistral key present the user message is logged before any external
\* call, and an assistant message is logged after it iff process_message succeeds, so a
\* failed message grows the log by the one user entry; with no Mistral key a prompt
\* leaves the log unchanged and makes no external call.
C10_LogFrame == [](C10_State) /\ [][C10_Step]_vars

C10_Witness ==
    /\ pc = "idle"
    /\ outcome.kind = "raised"
    /\ Len(Log) >= 2
    /\ Last(Log).role = "user"
    /\ Log[Len(Log) - 1].role = "user"

====
